---- MODULE Spec2Model ----
(***************************************************************************)
(* VersionVisualizer: the version resolver (src/js/versionResolver.js),    *)
(* its basic variant, and the ChartManager (src/js/chartManager.js).       *)
(*                                                                         *)
(* resolveVersion(versions, purchaseDate, travelDate, options) is a pure   *)
(* function.  The state machine below draws its arguments from bounded     *)
(* sets, calls it, and calls it again with one argument changed:           *)
(*   Spec          the single call                                         *)
(*   SpecShuffled  and the call on another order of the list               *)
(*   SpecOtherEnd  and the call with the other end rule                    *)
(*   SpecLater     and the call with a later purchase date                 *)
(*   SpecAsDate    and the call with Date objects for the same instants    *)
(*   SpecName      and the call of resolveVersionName                      *)
(*   SpecBasic     and the call of the basic variant of the resolver       *)
(*   SpecWithLater the single call on lists with later publications        *)
(* SpecChart is the page: a ChartManager is initialized, then its dates    *)
(* and its version data are changed through its handlers.                  *)
(*   SpecProducers the producers of version records (generation, form      *)
(*                 edits, drags and drops of a column)                     *)
(*   SpecDrag      the DragAndDropHandler with its drag toggle             *)
(*   SpecLabels    addVersionLabels (src/js/versionLabels.js) with its     *)
(*                 'frameended' and 'datavalidated' callbacks              *)
(*                                                                         *)
(* JavaScript values are represented as follows:                           *)
(*   versions   [kind, items]: kind "array" carries the elements in items; *)
(*              the kinds "undefined", "null", "number", "object" are the  *)
(*              values that are not arrays (items is then <<>>)            *)
(*   options    [kind, inclusiveEnd]: kind "omitted" is a call without the *)
(*              fourth argument, kind "object" an object whose property    *)
(*              inclusiveEnd is one of the tags "undefined" (no such       *)
(*              property), "true", "false", "null", "0", "''"; a fourth    *)
(*              argument that is no object (null) is not among the inputs  *)
(*   a date     [kind, ms] is a millisecond number, [kind, time] with kind *)
(*              "Date" a Date object holding the time value time           *)
(*   null       as the empty sequence, a present record v as <<v>>         *)
(* Instants are small naturals 0..MaxTime.                                 *)
(***************************************************************************)
EXTENDS Integers, Sequences, FiniteSets

\* ------------------------------------------------------------------ bounds
MaxLen == 2
MaxTime == 1
TicksPerDay == 2
MaxHandlers == 2

MaxCalls == 2

Times == 0..MaxTime

VersionName(i) == <<"v1", "v2", "v3", "v4">>[i]

\* ------------------------------------------------------- JavaScript values
InclusiveEndValues == {"undefined", "true", "false", "null", "0", "''"}

OptionsValues ==
  {[kind |-> "omitted", inclusiveEnd |-> "undefined"]}
    \cup {[kind |-> "object", inclusiveEnd |-> x] : x \in InclusiveEndValues}

NotArrayKinds == {"undefined", "null", "number", "object"}

NotArrayValues == {[kind |-> k, items |-> <<>>] : k \in NotArrayKinds}

\* the windows <<open, close>>.  A window with open > close contains no
\* instant under either end rule and its open is never compared, so one such
\* window stands for all of them.
Windows == {w \in Times \X Times : w[1] <= w[2]} \cup {<<MaxTime, 0>>}

VersionRecords(i) ==
  {[version |-> VersionName(i), publishDate |-> pd, open |-> w[1], close |-> w[2]] :
      pd \in Times, w \in Windows}

VersionLists(n) ==
  {s \in [1..n -> UNION {VersionRecords(i) : i \in 1..n}] :
      \A i \in 1..n : s[i].version = VersionName(i)}

ArrayValues ==
  {[kind |-> "array", items |-> s] : s \in UNION {VersionLists(n) : n \in 0..MaxLen}}

DateValues == {[kind |-> "number", ms |-> n] : n \in Times}

\* a Date object holds its time value; getTime() reads it
DateObjects == {[kind |-> "Date", time |-> n] : n \in Times}

AsDate(d) == [kind |-> "Date", time |-> d.ms]

Null == <<>>

\* lists of one version more, published at one instant more, so that a purchase
\* can have a version available and several later ones; the windows are the
\* instant 0, the whole range and the last instant
LaterTimes == 0..(MaxTime + 1)

LaterWindows == {<<0, 0>>, <<0, MaxTime>>, <<MaxTime, MaxTime>>}

ListsWithLater ==
  {[i \in 1..(MaxLen + 1) |->
      [version |-> VersionName(i), publishDate |-> f[i][1],
       open |-> f[i][2][1], close |-> f[i][2][2]]] :
     f \in [1..(MaxLen + 1) -> LaterTimes \X LaterWindows]}

LaterOptions ==
  {[kind |-> "omitted", inclusiveEnd |-> "undefined"],
   [kind |-> "object", inclusiveEnd |-> "false"]}

\* Array.isArray(versions)
IsArray(versions) == versions.kind = "array"

\* truthiness of a value of options.inclusiveEnd
Truthy(x) == x = "true"

\* d instanceof Date ? d.getTime() : d
getTime(d) == d.time

ToMillisInDays(d) == IF d.kind = "Date" THEN getTime(d) \div TicksPerDay ELSE d.ms

\* x instanceof Date ? x.getTime() : x
ToMillis(d) == IF d.kind = "Date" THEN getTime(d) ELSE d.ms

\* options = {} as parameter default
DefaultOptions(options) ==
  IF options.kind = "omitted"
    THEN [kind |-> "object", inclusiveEnd |-> "undefined"]
    ELSE options

\* const { inclusiveEnd = true } = options
DestructureInclusiveEnd(options) ==
  IF options.inclusiveEnd = "undefined" THEN "true" ELSE options.inclusiveEnd

\* options.inclusiveEnd !== false
NotStrictlyFalse(options) == options.inclusiveEnd # "false"

\* --------------------------------------------------------- resolveVersion
\* versions.length: the number of elements of an array; a value that is not an
\* array has no length that equals a number (-1 stands for that)
Length(versions) == IF IsArray(versions) THEN Len(versions.items) ELSE -1

\* the guard without the Array.isArray test
EmptyOnly(versions) == Length(versions) = 0

\* the guard of the first early return
EmptyOrNotArray(versions) == ~IsArray(versions) \/ Length(versions) = 0

\* the position at which sort places v in an already sorted prefix: behind
\* every element the comparator does not order after it (stable)
\* the comparator (a, b) => b.publishDate - a.publishDate
RECURSIVE InsertByPublishDateDescending(_, _)
InsertByPublishDateDescending(sorted, v) ==
  IF sorted = <<>> THEN <<v>>
  ELSE LET last == sorted[Len(sorted)]
       IN IF v.publishDate - last.publishDate > 0
            THEN Append(InsertByPublishDateDescending(SubSeq(sorted, 1, Len(sorted) - 1), v), last)
            ELSE Append(sorted, v)

RECURSIVE InsertByPublishDate(_, _)
InsertByPublishDate(sorted, v) ==
  IF sorted = <<>> THEN <<v>>
  ELSE LET last == sorted[Len(sorted)]
       IN IF last.publishDate - v.publishDate > 0
            THEN Append(InsertByPublishDate(SubSeq(sorted, 1, Len(sorted) - 1), v), last)
            ELSE Append(sorted, v)

\* the copy left in the order of the input
NotSorted(items) == items

\* [...versions].sort((a, b) => a.publishDate - b.publishDate)
RECURSIVE SortByPublishDate(_)
SortByPublishDate(items) ==
  IF items = <<>> THEN <<>>
  ELSE InsertByPublishDate(SortByPublishDate(SubSeq(items, 1, Len(items) - 1)),
                           items[Len(items)])

\* the filter with a strict comparison
IsAvailableStrictly(v, p) == v.publishDate < p

\* v => v.publishDate <= p
IsAvailableOnPublishDay(v, p) == v.publishDate = p

\* the filter with the comparison turned round
IsAvailableFromPurchase(v, p) == v.publishDate >= p

IsAvailable(v, p) == v.publishDate <= p

\* the second early return left out
NoneAvailableUnchecked(available) == FALSE

\* available.length === 0, the guard of the second early return
NoneAvailable(available) == Len(available) = 0

\* candidates.length === 0, the guard of the third early return
\* the resolver without its third early return
NoneCoversUnchecked(candidates) == FALSE

NoneCovers(candidates) == Len(candidates) = 0

\* inRange with a strict lower end
inRangeOpenExcluded(v, t, inclusiveEnd) ==
  IF Truthy(inclusiveEnd)
    THEN v.open < t /\ t <= v.close
    ELSE v.open < t /\ t < v.close

\* inRange with the same upper end in both branches
inRangeAlwaysInclusive(v, t, inclusiveEnd) ==
  IF Truthy(inclusiveEnd)
    THEN v.open <= t /\ t <= v.close
    ELSE v.open <= t /\ t <= v.close

\* inRange without the lower end
inRangeNoOpen(v, t, inclusiveEnd) ==
  IF Truthy(inclusiveEnd) THEN t <= v.close ELSE t < v.close

\* inRange with the upper end excluded in both branches
inRangeAlwaysExclusive(v, t, inclusiveEnd) ==
  IF Truthy(inclusiveEnd)
    THEN v.open <= t /\ t < v.close
    ELSE v.open <= t /\ t < v.close

\* inRange
inRange(v, t, inclusiveEnd) ==
  IF Truthy(inclusiveEnd)
    THEN v.open <= t /\ t <= v.close
    ELSE v.open <= t /\ t < v.close

\* the filter with publishDate >= p
IsFutureCoveringOrPublishedNow(v, p, t, inclusiveEnd) ==
  v.publishDate >= p /\ inRange(v, t, inclusiveEnd)

\* the filter that skips the instant after p
IsFutureCoveringSkippingNext(v, p, t, inclusiveEnd) ==
  v.publishDate > p + 1 /\ inRange(v, t, inclusiveEnd)

\* v => v.publishDate > p && inRange(v)
IsFutureCovering(v, p, t, inclusiveEnd) ==
  v.publishDate > p /\ inRange(v, t, inclusiveEnd)

\* the callback keeping the smaller publishDate
Older(acc, cur) ==
  IF acc = Null THEN <<cur>>
  ELSE IF cur.publishDate < acc[1].publishDate THEN <<cur>>
  ELSE IF cur.publishDate = acc[1].publishDate /\ cur.open > acc[1].open THEN <<cur>>
  ELSE acc

\* the callback without the fallback on open
NewerIgnoringOpen(acc, cur) ==
  IF acc = Null THEN <<cur>>
  ELSE IF cur.publishDate > acc[1].publishDate THEN <<cur>>
  ELSE acc

\* the callback that lets a tie on publishDate and open replace the accumulator
NewerOrTied(acc, cur) ==
  IF acc = Null THEN <<cur>>
  ELSE IF cur.publishDate > acc[1].publishDate THEN <<cur>>
  ELSE IF cur.publishDate = acc[1].publishDate /\ cur.open >= acc[1].open THEN <<cur>>
  ELSE acc

\* the callback of candidates.reduce
Newer(acc, cur) ==
  IF acc = Null THEN <<cur>>
  ELSE IF cur.publishDate > acc[1].publishDate THEN <<cur>>
  ELSE IF cur.publishDate = acc[1].publishDate /\ cur.open > acc[1].open THEN <<cur>>
  ELSE acc

\* candidates.reduce(callback, null): a left fold
RECURSIVE Reduce(_, _)
Reduce(acc, s) ==
  IF s = <<>> THEN acc ELSE Reduce(Newer(acc, Head(s)), Tail(s))

\* new Date(d).toLocaleDateString(): the calendar day of the instant
fmt(d) == d \div TicksPerDay

NoExplanation ==
  [shape |-> "", pStr |-> 0, tStr |-> 0, endWord |-> "", availableCount |-> 0,
   version |-> Null, otherCount |-> Null, future |-> Null]

buildExplanation(match, candidates, available, futureCovering, purchaseDate, travelDate, reason, inclusiveEnd) ==
  LET pStr == fmt(purchaseDate)
      tStr == fmt(travelDate)
      endWord == IF Truthy(inclusiveEnd) THEN "inkludert" ELSE "eksklusiv"
      latestFuture ==
        IF Len(futureCovering) > 0
          THEN LET f == futureCovering[Len(futureCovering)]
               IN <<[version |-> f.version, published |-> fmt(f.publishDate)]>>
          ELSE Null
  IN IF reason = "NO_AVAILABLE_VERSIONS"
       THEN [NoExplanation EXCEPT !.shape = reason, !.pStr = pStr]
     ELSE IF reason = "NO_VERSION_COVERS_TRAVEL_DATE"
       THEN [NoExplanation EXCEPT !.shape = reason, !.pStr = pStr, !.tStr = tStr,
                                  !.endWord = endWord,
                                  !.availableCount = Len(available),
                                  !.future = latestFuture]
     ELSE IF reason = "OK" /\ match # Null
       THEN [NoExplanation EXCEPT !.shape = reason, !.pStr = pStr, !.tStr = tStr,
                                  !.endWord = endWord,
                                  !.version = <<[version |-> match[1].version,
                                                 pub |-> fmt(match[1].publishDate),
                                                 open |-> fmt(match[1].open),
                                                 close |-> fmt(match[1].close)]>>,
                                  !.otherCount =
                                     IF Len(candidates) > 1
                                       THEN <<Len(candidates) - 1>> ELSE Null,
                                  !.future = latestFuture]
     ELSE NoExplanation

baseResult(match, candidates, available, futureCovering, purchaseDate, travelDate, options, reason, explanation) ==
  [threw |-> FALSE,
   match |-> match,
   reason |-> reason,
   candidates |-> candidates,
   available |-> available,
   futureCovering |-> futureCovering,
   purchaseDate |-> purchaseDate,
   travelDate |-> travelDate,
   options |-> [inclusiveEnd |-> NotStrictlyFalse(options)],
   explanation |-> explanation]

\* a call that ends in a TypeError returns nothing
Threw ==
  [threw |-> TRUE, match |-> Null, reason |-> "", candidates |-> <<>>,
   available |-> <<>>, futureCovering |-> <<>>, purchaseDate |-> 0,
   travelDate |-> 0, options |-> [inclusiveEnd |-> FALSE],
   explanation |-> NoExplanation]

resolveVersion(versions, purchaseDate, travelDate, optionsArg) ==
  LET options == DefaultOptions(optionsArg)
      inclusiveEnd == DestructureInclusiveEnd(options)
      p == ToMillis(purchaseDate)
      t == ToMillis(travelDate)
  IN IF EmptyOrNotArray(versions)
       THEN baseResult(Null, <<>>, <<>>, <<>>, p, t, options, "NO_AVAILABLE_VERSIONS",
              buildExplanation(Null, <<>>, <<>>, <<>>, p, t,
                               "NO_AVAILABLE_VERSIONS", inclusiveEnd))
     ELSE IF ~IsArray(versions)
       THEN Threw   \* [...versions] of a value that is not iterable
     ELSE
       LET sorted == SortByPublishDate(versions.items)
           InRange(v) == inRange(v, t, inclusiveEnd)
           Available(v) == IsAvailable(v, p)
           Future(v) == IsFutureCovering(v, p, t, inclusiveEnd)
           available == SelectSeq(sorted, Available)
           futureCovering == SelectSeq(sorted, Future)
           candidates == SelectSeq(available, InRange)
           match == Reduce(Null, candidates)
       IN IF NoneAvailable(available)
            THEN baseResult(Null, <<>>, available, futureCovering, p, t, options,
                   "NO_AVAILABLE_VERSIONS",
                   buildExplanation(Null, <<>>, available, futureCovering, p, t,
                                    "NO_AVAILABLE_VERSIONS", inclusiveEnd))
          ELSE IF NoneCovers(candidates)
            THEN baseResult(Null, candidates, available, futureCovering, p, t, options,
                   "NO_VERSION_COVERS_TRAVEL_DATE",
                   buildExplanation(Null, candidates, available, futureCovering, p, t,
                                    "NO_VERSION_COVERS_TRAVEL_DATE", inclusiveEnd))
          ELSE baseResult(match, candidates, available, futureCovering, p, t, options,
                 "OK",
                 buildExplanation(match, candidates, available, futureCovering, p, t,
                                  "OK", inclusiveEnd))

resolveVersionNameOfFirstCandidate(versions, purchaseDate, travelDate, optionsArg) ==
  LET r == resolveVersion(versions, purchaseDate, travelDate, optionsArg)
  IN IF r.candidates # <<>> THEN <<r.candidates[1].version>> ELSE Null

\* the name of the match, <<name>>, or null
resolveVersionName(versions, purchaseDate, travelDate, optionsArg) ==
  LET r == resolveVersion(versions, purchaseDate, travelDate, optionsArg)
  IN IF r.match # Null THEN <<r.match[1].version>> ELSE Null

\* ------------------------------------------------------------ the basic variant
\* The resolver without futureCovering and explanation.

inRangeBasicInclusiveOnly(v, t, inclusiveEnd) == v.open <= t /\ t <= v.close

\* const inRange = (v) => { if (inclusiveEnd) {...} else {...} }
inRangeBasic(v, t, inclusiveEnd) ==
  IF Truthy(inclusiveEnd)
    THEN v.open <= t /\ t <= v.close
    ELSE v.open <= t /\ t < v.close

baseResultBasic(match, candidates, available, purchaseDate, travelDate, options, reason) ==
  [threw |-> FALSE,
   match |-> match,
   reason |-> reason,
   candidates |-> candidates,
   available |-> available,
   purchaseDate |-> purchaseDate,
   travelDate |-> travelDate,
   options |-> [inclusiveEnd |-> options.inclusiveEnd # "false"]]

resolveVersionBasic(versions, purchaseDate, travelDate, optionsArg) ==
  LET options == DefaultOptions(optionsArg)
      inclusiveEnd == DestructureInclusiveEnd(options)
      p == ToMillis(purchaseDate)
      t == ToMillis(travelDate)
  IN IF ~IsArray(versions) \/ Length(versions) = 0
       THEN baseResultBasic(Null, <<>>, <<>>, p, t, options, "NO_AVAILABLE_VERSIONS")
     ELSE
       LET sorted == SortByPublishDate(versions.items)
           Available(v) == v.publishDate <= p
           InRange(v) == inRangeBasic(v, t, inclusiveEnd)
           available == SelectSeq(sorted, Available)
           candidates == SelectSeq(available, InRange)
           match == Reduce(Null, candidates)
       IN IF Len(available) = 0
            THEN baseResultBasic(Null, <<>>, <<>>, p, t, options, "NO_AVAILABLE_VERSIONS")
          ELSE IF Len(candidates) = 0
            THEN baseResultBasic(Null, candidates, available, p, t, options,
                                 "NO_VERSION_COVERS_TRAVEL_DATE")
          ELSE baseResultBasic(match, candidates, available, p, t, options, "OK")

\* ------------------------------------------------------------ the caller
VARIABLES
  versions, \* the caller's version list (or what it holds in its place)
  call,     \* Null, or <<a>> with a the arguments of the call made
  result,   \* the return value of that call
  again,    \* the further calls made after it: records [args, result]
  chart,    \* the ChartManager of the page
  drag,     \* its DragAndDropHandler
  labels    \* the column series as addVersionLabels sees it

vars == <<versions, call, result, again, chart, drag, labels>>

NotCalled == [Threw EXCEPT !.threw = FALSE, !.reason = "NOT_CALLED"]

Arguments(vs, pd, td, opts) ==
  [versions |-> vs, purchaseDate |-> pd, travelDate |-> td, options |-> opts]

\* the call and what it returns
Called(a) ==
  [args |-> a,
   result |-> resolveVersion(a.versions, a.purchaseDate, a.travelDate, a.options)]

\* ------------------------------------------------------------ ChartManager
\* The fields of a ChartManager that the resolution reads and writes: chartData,
\* purchaseDate, travelDate, _currentValidVersion, whether the series exists,
\* whether the page holds the #resolved-version element, and the
\* PurchaseDateShading (null until initialize) with its own purchaseDate.

\* constructor: the default purchase date is before the default travel date
constructor(el) ==
  [chartData |-> <<>>, purchaseDate |-> 0, travelDate |-> MaxTime,
   _currentValidVersion |-> Null, series |-> FALSE, resolvedVersionEl |-> el,
   purchaseDateShading |-> Null]

\* new PurchaseDateShading(chart, xAxis, yAxis, purchaseDate): the constructor
\* has four parameters, a fifth argument is dropped
PurchaseDateShading(purchaseDate, onChange) == [purchaseDate |-> purchaseDate]

\* PurchaseDateShading.updatePurchaseDate(newPurchaseDate)
ShadingUpdatePurchaseDate(sh, newPurchaseDate) ==
  [sh EXCEPT !.purchaseDate = newPurchaseDate]

\* the onChange of the shading's InteractiveDateLine: this.purchaseDate = val
ShadingLineChanged(sh, val) == [sh EXCEPT !.purchaseDate = val]

\* initializePurchaseDateShading()
initializePurchaseDateShading(c) ==
  [c EXCEPT !.purchaseDateShading =
              <<PurchaseDateShading(c.purchaseDate, "updateResolvedVersionUI")>>]

\* generateData: MaxLen versions, each with publishDate <= open < close
generateData ==
  {s \in VersionLists(MaxLen) :
      \A i \in 1..MaxLen : s[i].publishDate <= s[i].open /\ s[i].open < s[i].close}

\* resolveVersion(this.chartData, this.purchaseDate, this.travelDate, { inclusiveEnd: true })
ChartResolve(c) ==
  resolveVersion([kind |-> "array", items |-> c.chartData],
                 [kind |-> "number", ms |-> c.purchaseDate],
                 [kind |-> "number", ms |-> c.travelDate],
                 [kind |-> "object", inclusiveEnd |-> "true"])

\* result && result.match ? result.match.version : null
MatchVersion(r) == IF r.match # Null THEN <<r.match[1].version>> ELSE Null

updateVersionHighlight(c, validVersionName) ==
  IF ~c.series THEN c ELSE [c EXCEPT !._currentValidVersion = validVersionName]

updateResolvedVersionUI(c) ==
  IF ~c.resolvedVersionEl THEN c ELSE updateVersionHighlight(c, MatchVersion(ChartResolve(c)))

\* the assignments to chartData[versionIndex] of updateVersionData and handleDrop
SetVersion(c, versionIndex, publishDate, open, close) ==
  [c EXCEPT !.chartData[versionIndex + 1] =
              [@ EXCEPT !.publishDate = publishDate, !.open = open, !.close = close]]

\* ------------------------------------------------------------ DateCalculator
\* The x axis shows the instants AxisMin..AxisMax on axisWidth pixels; a
\* position is a pixel offset, also left and right of the axis.
AxisMin == 0

AxisMax == MaxTime

axisWidth == 2 * MaxTime

Positions == (0 - 1)..(axisWidth + 1)

\* new Date(x): the time value is x without its fraction; x is given in halves
DateOfHalves(h) == IF h >= 0 THEN h \div 2 ELSE 0 - ((0 - h) \div 2)

\* positionToDate: the ratio xPosition / axisWidth is clamped to [0, 1]
positionToDate(xPosition) ==
  LET clamped == IF xPosition < 0 THEN 0
                 ELSE IF xPosition > axisWidth THEN axisWidth ELSE xPosition
  IN AxisMin + ((AxisMax - AxisMin) * clamped) \div axisWidth

\* calculateDateShift: the shift of the midpoint, in halves of a millisecond
calculateDateShift(originalData, newMidpointDate) ==
  LET originalDuration == originalData.close - originalData.open
      originalMidpoint2 == 2 * originalData.open + originalDuration
  IN [shift2 |-> 2 * newMidpointDate - originalMidpoint2,
      originalStart |-> originalData.open,
      originalEnd |-> originalData.close]

\* applyShiftAndValidate without the validation against the publish date
applyShiftOnly(shiftData, publishDateTimestamp) ==
  [startTimestamp |-> DateOfHalves(2 * shiftData.originalStart + shiftData.shift2),
   endTimestamp |-> DateOfHalves(2 * shiftData.originalEnd + shiftData.shift2)]

\* applyShiftAndValidate: a start before the publish date is moved to it and
\* the end is moved by as much
applyShiftAndValidate(shiftData, publishDateTimestamp) ==
  LET finalStartDate == DateOfHalves(2 * shiftData.originalStart + shiftData.shift2)
      finalEndDate == DateOfHalves(2 * shiftData.originalEnd + shiftData.shift2)
      adjustment == publishDateTimestamp - finalStartDate
  IN IF finalStartDate < publishDateTimestamp
       THEN [startTimestamp |-> publishDateTimestamp,
             endTimestamp |-> finalEndDate + adjustment]
       ELSE [startTimestamp |-> finalStartDate, endTimestamp |-> finalEndDate]

\* calculatePreciseDropDates: the dates of the column's start and end
\* positions; a start before the publish date moves the publish date to it
calculatePreciseDropDates(startX, endX, originalData) ==
  LET newStartDate == positionToDate(startX)
      newEndDate == positionToDate(endX)
  IN [startTimestamp |-> newStartDate,
      endTimestamp |-> newEndDate,
      publishTimestamp |-> IF newStartDate < originalData.publishDate
                             THEN newStartDate ELSE originalData.publishDate]

\* ------------------------------------------------------------ DragAndDropHandler
\* isEnabled, the number of times setupEventHandlers has registered the three
\* event handlers, dragState (null for {}), and for the last event on a column
\* its name and the number of calls of onDragStart and onDrop it made.
DragAndDropHandler ==
  [isEnabled |-> FALSE, handlers |-> 0, dragState |-> Null,
   event |-> "none", onDragStart |-> 0, onDrop |-> 0]

\* enable(): setupEventHandlers() registers the handlers
enable(d) ==
  IF d.isEnabled THEN d
  ELSE [d EXCEPT !.handlers = @ + 1, !.isEnabled = TRUE]

\* disable(): the handlers stay registered
disable(d) ==
  IF ~d.isEnabled THEN d ELSE [d EXCEPT !.isEnabled = FALSE]

isDragging(d) == d.dragState # Null

\* the page as the handlers see it
Page(c, d) == [chart |-> c, drag |-> d]

HandleDragStart(pg, versionIndex, x) ==
  LET v == pg.chart.chartData[versionIndex + 1]
  IN [pg EXCEPT !.drag.dragState =
                   <<[versionIndex |-> versionIndex, originalX |-> x,
                      originalData |-> [open |-> v.open, close |-> v.close,
                                        publishDate |-> v.publishDate]]>>,
                !.drag.onDragStart = @ + 1]

HandleDragging(pg, currentX) ==
  IF pg.drag.dragState = Null THEN pg
  ELSE LET st == pg.drag.dragState[1]
           deltaX == currentX - st.originalX
           dragResult == applyShiftAndValidate(
                           calculateDateShift(st.originalData, positionToDate(currentX)),
                           st.originalData.publishDate)
       IN IF deltaX > 1 \/ deltaX < 0 - 1
            THEN [pg EXCEPT !.chart.chartData[st.versionIndex + 1] =
                              [@ EXCEPT !.open = dragResult.startTimestamp,
                                        !.close = dragResult.endTimestamp]]
            ELSE pg

\* handleDrop with the onDrop callback of the ChartManager
HandleDrop(pg, startX, endX) ==
  IF pg.drag.dragState = Null THEN pg
  ELSE LET st == pg.drag.dragState[1]
           dateResult == calculatePreciseDropDates(startX, endX, st.originalData)
           dropped == SetVersion(pg.chart, st.versionIndex, dateResult.publishTimestamp,
                                 dateResult.startTimestamp, dateResult.endTimestamp)
       IN [chart |-> updateResolvedVersionUI(dropped),
           drag |-> [pg.drag EXCEPT !.onDrop = @ + 1, !.dragState = Null]]

\* an event on a column runs every registered handler in turn
RECURSIVE DispatchDragStart(_, _, _, _)
DispatchDragStart(pg, versionIndex, x, n) ==
  IF n = 0 THEN pg
  ELSE DispatchDragStart(HandleDragStart(pg, versionIndex, x), versionIndex, x, n - 1)

RECURSIVE DispatchDrag(_, _, _)
DispatchDrag(pg, currentX, n) ==
  IF n = 0 THEN pg ELSE DispatchDrag(HandleDragging(pg, currentX), currentX, n - 1)

RECURSIVE DispatchDragStop(_, _, _, _)
DispatchDragStop(pg, startX, endX, n) ==
  IF n = 0 THEN pg
  ELSE DispatchDragStop(HandleDrop(pg, startX, endX), startX, endX, n - 1)

\* the counts of a new event start at zero
Event(d, name) == [d EXCEPT !.event = name, !.onDragStart = 0, !.onDrop = 0]

\* ------------------------------------------------------------ versionLabels
\* The series as addVersionLabels reads and writes it: whether
\* series.columns.template exists with a children list to push to, the number
\* of labels pushed to it, the number of bullet factories pushed to
\* series.bullets, the two marks, and for every call of addVersionLabels its
\* method, its attempts, whether its iterative is registered for the next
\* 'frameended' and whether its 'datavalidated' listener is registered.
maxAttempts == 10

Methods == {"auto", "template", "bullet"}

Series(template) ==
  [template |-> template, children |-> 0, _versionLabelAttached |-> FALSE,
   bullets |-> 0, _versionLabelBulletAttached |-> FALSE, calls |-> <<>>]

\* tryTemplateAttach(): succeeds exactly when the template can take children
tryTemplateAttach(s) ==
  IF ~s.template THEN s
  ELSE [s EXCEPT !.children = @ + 1, !._versionLabelAttached = TRUE]

attachBullets(s) ==
  IF s._versionLabelBulletAttached THEN s
  ELSE [s EXCEPT !.bullets = @ + 1, !._versionLabelBulletAttached = TRUE]

\* iterative() of call i
iterative(s, i) ==
  IF s.template
    THEN [tryTemplateAttach(s) EXCEPT !.calls[i].frameended = FALSE]
    ELSE LET attempts == s.calls[i].attempts + 1
             t == [s EXCEPT !.calls[i].attempts = attempts]
         IN IF attempts < maxAttempts
              THEN [t EXCEPT !.calls[i].frameended = TRUE]
              ELSE IF s.calls[i].method = "auto"
                     THEN [attachBullets(t) EXCEPT !.calls[i].frameended = FALSE]
                     ELSE [t EXCEPT !.calls[i].frameended = FALSE]

\* the 'datavalidated' listener
onDataValidated(s) ==
  IF ~s._versionLabelAttached /\ ~s._versionLabelBulletAttached
    THEN IF s.template THEN tryTemplateAttach(s) ELSE attachBullets(s)
    ELSE s

NewCall(method, datavalidated) ==
  [method |-> method, attempts |-> 0, frameended |-> FALSE,
   datavalidated |-> datavalidated]

\* addVersionLabels(root, series, getValidVersion, { method })
addVersionLabelsOn(s, method) ==
  IF s.template /\ s._versionLabelAttached
    THEN [s EXCEPT !.calls = Append(@, NewCall(method, FALSE))]
    ELSE IF method = "bullet"
      THEN [attachBullets(s) EXCEPT !.calls = Append(@, NewCall(method, FALSE))]
      ELSE iterative([s EXCEPT !.calls = Append(@, NewCall(method, TRUE))],
                     Len(s.calls) + 1)

\* root dispatches 'frameended': the listeners registered before run in turn
RECURSIVE DispatchFrameEnded(_, _, _)
DispatchFrameEnded(s, registered, i) ==
  IF i > Len(s.calls) THEN s
  ELSE DispatchFrameEnded(IF i \in registered THEN iterative(s, i) ELSE s,
                          registered, i + 1)

\* series dispatches 'datavalidated': every listener runs in turn
RECURSIVE DispatchDataValidated(_, _)
DispatchDataValidated(s, i) ==
  IF i > Len(s.calls) THEN s
  ELSE DispatchDataValidated(IF s.calls[i].datavalidated THEN onDataValidated(s) ELSE s,
                             i + 1)

\* ------------------------------------------------------------ the states
Init ==
  /\ versions \in ArrayValues \cup NotArrayValues
  /\ call = Null
  /\ result = NotCalled
  /\ again = {}
  /\ chart = constructor(TRUE)
  /\ drag = DragAndDropHandler
  /\ labels = Series(TRUE)

\* a series whose column template may or may not take children yet
InitLabels ==
  /\ versions = [kind |-> "array", items |-> <<>>]
  /\ call = Null
  /\ result = NotCalled
  /\ again = {}
  /\ chart = constructor(TRUE)
  /\ drag = DragAndDropHandler
  /\ labels \in {Series(template) : template \in BOOLEAN}

\* a caller with a list holding later publications
InitWithLater ==
  /\ versions \in {[kind |-> "array", items |-> l] : l \in ListsWithLater}
  /\ call = Null
  /\ result = NotCalled
  /\ again = {}
  /\ chart = constructor(TRUE)
  /\ drag = DragAndDropHandler
  /\ labels = Series(TRUE)

\* a page with a ChartManager just constructed
InitChart ==
  /\ versions = [kind |-> "array", items |-> <<>>]
  /\ call = Null
  /\ result = NotCalled
  /\ again = {}
  /\ chart \in {constructor(el) : el \in BOOLEAN}
  /\ drag = DragAndDropHandler
  /\ labels = Series(TRUE)

\* the caller's array after a call: line 66 sorts a copy ([...versions]) and
\* nothing assigns to the array or to a record, so it is what it was
SortedInPlace(vs) == IF IsArray(vs) THEN [vs EXCEPT !.items = SortByPublishDate(@)] ELSE vs

InputAfterCall(vs) == vs

\* resolveVersion(versions, purchaseDate, travelDate, options)
Resolve ==
  /\ call = Null
  /\ \E pd \in DateValues, td \in DateValues, o \in OptionsValues :
       /\ call' = <<Arguments(versions, pd, td, o)>>
       /\ result' = Called(Arguments(versions, pd, td, o)).result
  /\ versions' = InputAfterCall(versions)
  /\ UNCHANGED <<again, chart, drag, labels>>

Orders(n) == {f \in [1..n -> 1..n] : \A i, j \in 1..n : f[i] = f[j] => i = j}

Reorder(items, f) == [i \in 1..Len(items) |-> items[f[i]]]

\* one further call: the same records in another order, all else equal
ResolveShuffled ==
  /\ call # Null
  /\ again = {}
  /\ IsArray(call[1].versions)
  /\ \E f \in Orders(Len(call[1].versions.items)) :
       /\ Reorder(call[1].versions.items, f) # call[1].versions.items
       /\ again' = {Called([call[1] EXCEPT !.versions.items = Reorder(@, f)])}
  /\ UNCHANGED <<versions, call, result, chart, drag, labels>>

\* one further call: inclusiveEnd false after a call with inclusiveEnd true, all
\* else equal
ResolveOtherEnd ==
  /\ call # Null
  /\ again = {}
  /\ call[1].options = [kind |-> "object", inclusiveEnd |-> "true"]
  /\ again' = {Called([call[1] EXCEPT !.options.inclusiveEnd = "false"])}
  /\ UNCHANGED <<versions, call, result, chart, drag, labels>>

\* a further call on the same list, travel date and options with a purchase date
\* that is not earlier
ResolveLater ==
  /\ call # Null
  /\ again = {}
  /\ \E pd \in DateValues :
       /\ ToMillis(call[1].purchaseDate) <= ToMillis(pd)
       /\ again' = {Called([call[1] EXCEPT !.purchaseDate = pd])}
  /\ UNCHANGED <<versions, call, result, chart, drag, labels>>

\* a further call for the same instants, with the purchase date, the travel date
\* or both passed as Date objects
ResolveAsDate ==
  /\ call # Null
  /\ again = {}
  /\ \E pd \in {call[1].purchaseDate, AsDate(call[1].purchaseDate)},
        td \in {call[1].travelDate, AsDate(call[1].travelDate)} :
       /\ <<pd, td>> # <<call[1].purchaseDate, call[1].travelDate>>
       /\ again' = {Called([call[1] EXCEPT !.purchaseDate = pd, !.travelDate = td])}
  /\ UNCHANGED <<versions, call, result, chart, drag, labels>>

\* the call of resolveVersionName with the arguments of the call
ResolveName ==
  /\ call # Null
  /\ again = {}
  /\ again' = {[args |-> call[1],
                name |-> resolveVersionName(call[1].versions, call[1].purchaseDate,
                                            call[1].travelDate, call[1].options)]}
  /\ UNCHANGED <<versions, call, result, chart, drag, labels>>

\* the call of the basic variant with the arguments of the call
ResolveBasic ==
  /\ call # Null
  /\ again = {}
  /\ again' = {[args |-> call[1],
                basic |-> resolveVersionBasic(call[1].versions, call[1].purchaseDate,
                                              call[1].travelDate, call[1].options)]}
  /\ UNCHANGED <<versions, call, result, chart, drag, labels>>

\* initialize(): the data is generated and resolved, the series is created,
\* the drag handler is constructed and enabled, and the resolved version is shown
initialize ==
  /\ ~chart.series
  /\ \E data \in generateData :
       LET c == [chart EXCEPT !.chartData = data]
       IN chart' = updateResolvedVersionUI(initializePurchaseDateShading(
                     [c EXCEPT !._currentValidVersion = MatchVersion(ChartResolve(c)),
                               !.series = TRUE]))
  /\ drag' = enable(DragAndDropHandler)
  /\ UNCHANGED <<versions, call, result, again, labels>>

\* updatePurchaseDate(newDate), from the purchase date field of the form
updatePurchaseDate ==
  /\ chart.series
  /\ \E newDate \in DateObjects :
       chart' = updateResolvedVersionUI(
                  [chart EXCEPT !.purchaseDate = getTime(newDate),
                                !.purchaseDateShading =
                                   IF @ = Null THEN @
                                   ELSE <<ShadingUpdatePurchaseDate(@[1], getTime(newDate))>>])
  /\ UNCHANGED <<versions, call, result, again, drag, labels>>

\* updateTravelDate(newDate), from the travel date field of the form
updateTravelDate ==
  /\ chart.series
  /\ \E newDate \in DateObjects :
       chart' = updateResolvedVersionUI([chart EXCEPT !.travelDate = getTime(newDate)])
  /\ UNCHANGED <<versions, call, result, again, drag, labels>>

\* the purchase line is dragged to another instant: the InteractiveDateLine
\* calls the onChange of the shading; the callback that ChartManager passed
\* to the constructor was dropped there and is not called
PurchaseLineDragged ==
  /\ chart.series
  /\ chart.purchaseDateShading # Null
  /\ \E value \in Times \ {chart.purchaseDateShading[1].purchaseDate} :
       chart' = [chart EXCEPT !.purchaseDateShading = <<ShadingLineChanged(@[1], value)>>]
  /\ UNCHANGED <<versions, call, result, again, drag, labels>>

\* the callback of TravelDateLine: the travel line is dragged
TravelLineDragged ==
  /\ chart.series
  /\ \E date \in Times :
       chart' = updateResolvedVersionUI([chart EXCEPT !.travelDate = date])
  /\ UNCHANGED <<versions, call, result, again, drag, labels>>

\* a column is dropped: handleDrop writes the dates of the drop into
\* chartData[versionIndex] and calls onDrop, which resolves again
handleDrop ==
  /\ chart.series
  /\ \E versionIndex \in 0..(Len(chart.chartData) - 1), publishDate \in Times, w \in Windows :
       chart' = updateResolvedVersionUI(
                  SetVersion(chart, versionIndex, publishDate, w[1], w[2]))
  /\ UNCHANGED <<versions, call, result, again, drag, labels>>

\* updateVersionData(versionIndex, publishDate, startDate, endDate), from the
\* date fields of a version in the form
updateVersionData ==
  /\ chart.series
  /\ \E versionIndex \in 0..MaxLen, publishDate \in DateObjects,
        startDate \in DateObjects, endDate \in DateObjects :
       chart' = IF Len(chart.chartData) > versionIndex
                  THEN SetVersion(chart, versionIndex, getTime(publishDate),
                                  getTime(startDate), getTime(endDate))
                  ELSE chart
  /\ UNCHANGED <<versions, call, result, again, drag, labels>>

\* a call of addVersionLabels on the series
addVersionLabels ==
  /\ Len(labels.calls) < MaxCalls
  /\ \E method \in Methods : labels' = addVersionLabelsOn(labels, method)
  /\ UNCHANGED <<versions, call, result, again, chart, drag>>

\* a frame ends while an iterative is registered
frameended ==
  /\ \E i \in DOMAIN labels.calls : labels.calls[i].frameended
  /\ labels' = DispatchFrameEnded(
                 labels, {i \in DOMAIN labels.calls : labels.calls[i].frameended}, 1)
  /\ UNCHANGED <<versions, call, result, again, chart, drag>>

\* the data of the series is validated while a listener is registered
datavalidated ==
  /\ \E i \in DOMAIN labels.calls : labels.calls[i].datavalidated
  /\ labels' = DispatchDataValidated(labels, 1)
  /\ UNCHANGED <<versions, call, result, again, chart, drag>>

\* the chart library gives the column template its children list
templateReady ==
  /\ ~labels.template
  /\ labels' = [labels EXCEPT !.template = TRUE]
  /\ UNCHANGED <<versions, call, result, again, chart, drag>>

\* resolveVersion on a list holding later publications
ResolveWithLater ==
  /\ call = Null
  /\ \E p \in LaterTimes, td \in DateValues, o \in LaterOptions :
       LET a == Arguments(versions, [kind |-> "number", ms |-> p], td, o)
       IN /\ call' = <<a>>
          /\ result' = Called(a).result
  /\ versions' = InputAfterCall(versions)
  /\ UNCHANGED <<again, chart, drag, labels>>

\* the column the user edits and drags: every handler reads and writes the
\* record of its own column only, so the first stands for each of them
Columns == {0}

\* the x of a column when a drag starts
OriginalPositions == {0, axisWidth}

OneDay == TicksPerDay

\* handleDateChange(versionIndex): the three date fields of a version are read,
\* validated, and passed to updateVersionData; no drag is in progress
handleDateChange ==
  /\ chart.series
  /\ drag.dragState = Null
  /\ \E versionIndex \in Columns, publishDate \in Times, startInput \in Times, endInput \in Times :
       LET startDate == IF startInput < publishDate THEN publishDate ELSE startInput
           endDate == IF endInput <= startDate THEN startDate + OneDay ELSE endInput
       IN chart' = IF Len(chart.chartData) > versionIndex
                     THEN SetVersion(chart, versionIndex, publishDate, startDate, endDate)
                     ELSE chart
  /\ UNCHANGED <<versions, call, result, again, drag, labels>>

\* setDragEnabled(enabled), from the drag toggle button
setDragEnabled ==
  /\ chart.series
  /\ drag.handlers < MaxHandlers
  /\ \E enabled \in BOOLEAN :
       drag' = IF enabled THEN enable(drag) ELSE disable(drag)
  /\ UNCHANGED <<versions, call, result, again, chart, labels>>

\* the dragstart event on a column
dragstart ==
  /\ chart.series
  /\ drag.isEnabled
  /\ \E versionIndex \in Columns, x \in OriginalPositions :
       LET pg == DispatchDragStart(Page(chart, Event(drag, "dragstart")),
                                   versionIndex, x, drag.handlers)
       IN chart' = pg.chart /\ drag' = pg.drag
  /\ UNCHANGED <<versions, call, result, again, labels>>

\* the drag event on the column
dragged ==
  /\ chart.series
  /\ drag.isEnabled
  /\ \E currentX \in Positions :
       LET pg == DispatchDrag(Page(chart, Event(drag, "drag")), currentX, drag.handlers)
       IN chart' = pg.chart /\ drag' = pg.drag
  /\ UNCHANGED <<versions, call, result, again, labels>>

\* the dragstop event on the column, whose start is not right of its end
dragstop ==
  /\ chart.series
  /\ drag.isEnabled
  /\ \E startX \in Positions, endX \in Positions :
       /\ startX <= endX
       /\ LET pg == DispatchDragStop(Page(chart, Event(drag, "dragstop")),
                                     startX, endX, drag.handlers)
          IN chart' = pg.chart /\ drag' = pg.drag
  /\ UNCHANGED <<versions, call, result, again, labels>>

\* single calls
Next == Resolve

Spec == Init /\ [][Next]_vars

\* a call and the call on a permutation
NextShuffled == Resolve \/ ResolveShuffled

SpecShuffled == Init /\ [][NextShuffled]_vars

\* a call and the call with the other end rule
NextOtherEnd == Resolve \/ ResolveOtherEnd

SpecOtherEnd == Init /\ [][NextOtherEnd]_vars

\* a call and the call with a later purchase date
NextLater == Resolve \/ ResolveLater

SpecLater == Init /\ [][NextLater]_vars

\* a call and the call with Date objects for the same instants
NextAsDate == Resolve \/ ResolveAsDate

SpecAsDate == Init /\ [][NextAsDate]_vars

\* a call of resolveVersion and the call of resolveVersionName
NextName == Resolve \/ ResolveName

SpecName == Init /\ [][NextName]_vars

\* a call of the extended resolver and the call of the basic variant
NextBasic == Resolve \/ ResolveBasic

SpecBasic == Init /\ [][NextBasic]_vars

\* single calls on lists holding later publications
NextWithLater == ResolveWithLater

SpecWithLater == InitWithLater /\ [][NextWithLater]_vars

\* the page: the chart is initialized, then dates and version data change
NextChart ==
  \/ initialize
  \/ updatePurchaseDate
  \/ updateTravelDate
  \/ PurchaseLineDragged
  \/ TravelLineDragged
  \/ handleDrop
  \/ updateVersionData

SpecChart == InitChart /\ [][NextChart]_vars

\* the producers of version records: generation, form edits, drags and drops
NextProducers ==
  \/ initialize
  \/ handleDateChange
  \/ dragstart
  \/ dragged
  \/ dragstop

SpecProducers == InitChart /\ [][NextProducers]_vars

\* drag and drop with the drag toggle
NextDrag ==
  \/ initialize
  \/ setDragEnabled
  \/ dragstart
  \/ dragged
  \/ dragstop

SpecDrag == InitChart /\ [][NextDrag]_vars

\* ------------------------------------------------------------ properties
Done == call # Null

Elements(s) == {s[i] : i \in DOMAIN s}

Count(s, v) == Cardinality({i \in DOMAIN s : s[i] = v})

options == call[1].options

Versions == Elements(versions.items)

P == call[1].purchaseDate.ms

T == call[1].travelDate.ms

CoversInclusive(v) == v.open <= T /\ T <= v.close

CoversExclusive(v) == v.open <= T /\ T < v.close

\* the end rule of the call: inclusive for a missing or true inclusiveEnd
InclusiveCall == options.kind = "omitted" \/ options.inclusiveEnd \in {"undefined", "true"}

Covers(v) == IF InclusiveCall THEN CoversInclusive(v) ELSE CoversExclusive(v)

AvailableVersions == {v \in Versions : v.publishDate <= P}

CandidateVersions == {v \in AvailableVersions : Covers(v)}

\* C1: when at least one version is both available at the purchase date and
\* covering the travel date, the reason is OK and the match is such a version
\* with the greatest publishDate of them all.
C1_NewestCandidateWins ==
  (Done /\ CandidateVersions # {}) =>
     /\ result.reason = "OK"
     /\ result.match # Null
     /\ result.match[1] \in CandidateVersions
     /\ \A v \in CandidateVersions : v.publishDate <= result.match[1].publishDate

C1_Witness ==
  /\ Done
  /\ result.reason = "OK"
  /\ \E v, w \in CandidateVersions :
        /\ v.publishDate < w.publishDate
        /\ versions.items = <<w, v>>
        /\ result.match = <<w>>

\* C2: among the candidates that share the publishDate of the match, none has
\* an open later than the open of the match.
C2_TieBreakLaterOpen ==
  (Done /\ result.match # Null) =>
     \A v \in CandidateVersions :
        v.publishDate = result.match[1].publishDate => v.open <= result.match[1].open

C2_Witness ==
  /\ Done
  /\ \E v, w \in CandidateVersions :
        /\ v.publishDate = w.publishDate
        /\ v.open < w.open
        /\ versions.items = <<v, w>>
        /\ result.match = <<w>>

SameRecords(s, u) == \A v \in Elements(s) \cup Elements(u) : Count(s, v) = Count(u, v)

\* the further calls on another order of the list, all else equal
ShuffledCalls ==
  {c \in again : /\ IsArray(c.args.versions)
                 /\ IsArray(versions)
                 /\ SameRecords(c.args.versions.items, versions.items)
                 /\ c.args.versions # versions
                 /\ c.args.purchaseDate = call[1].purchaseDate
                 /\ c.args.travelDate = call[1].travelDate
                 /\ c.args.options = options}

\* C3: a call on a permutation of the list, with the same dates and options,
\* returns the same match and the same reason.
C3_OrderIndependent ==
  Done => \A c \in ShuffledCalls : /\ c.result.match = result.match
                                   /\ c.result.reason = result.reason

\* C4: for a non-empty list, available holds exactly the versions published at
\* or before the purchase date, each as often as the list holds it.
C4_AvailableFilter ==
  (Done /\ IsArray(versions) /\ Len(versions.items) > 0) =>
     /\ Elements(result.available) = AvailableVersions
     /\ \A v \in AvailableVersions : Count(result.available, v) = Count(versions.items, v)
     /\ result.reason \in {"OK", "NO_VERSION_COVERS_TRAVEL_DATE", "NO_AVAILABLE_VERSIONS"}

C4_Witness ==
  /\ Done
  /\ result.reason = "NO_VERSION_COVERS_TRAVEL_DATE"
  /\ Len(result.available) = 1
  /\ Len(versions.items) = 2
  /\ \E v \in Versions : v.publishDate = P
  /\ \E v \in Versions : v.publishDate > P

\* C5: candidates holds exactly the available versions with open <= t <= close
\* when inclusiveEnd is true and with open <= t < close when it is false, each
\* once; whatever the options, it holds no version that is unavailable or
\* whose window does not contain t.
C5_CandidatesFilter ==
  Done =>
     /\ (options.kind = "object" /\ options.inclusiveEnd = "true")
           => Elements(result.candidates) = {v \in AvailableVersions : CoversInclusive(v)}
     /\ (options.kind = "object" /\ options.inclusiveEnd = "false")
           => Elements(result.candidates) = {v \in AvailableVersions : CoversExclusive(v)}
     /\ \A v \in Elements(result.candidates) :
           /\ v \in AvailableVersions
           /\ CoversInclusive(v)
           /\ Count(result.candidates, v) = Count(versions.items, v)

C5_Witness ==
  /\ Done
  /\ options.inclusiveEnd = "true"
  /\ Len(result.candidates) = 1
  /\ \E v \in AvailableVersions : v.open = T /\ v \in Elements(result.candidates)
  /\ \E v \in AvailableVersions : ~CoversInclusive(v)

\* the further calls with inclusiveEnd false after a call with inclusiveEnd true,
\* all else equal
OtherEndCalls ==
  IF options = [kind |-> "object", inclusiveEnd |-> "true"]
    THEN {c \in again :
            c.args = [call[1] EXCEPT !.options = [kind |-> "object", inclusiveEnd |-> "false"]]}
    ELSE {}

\* C6: an available version with open <= close and close equal to the travel
\* date is a candidate of the call with inclusiveEnd true and not of the call
\* with inclusiveEnd false on the same arguments; when it is the only version
\* the reasons are OK and NO_VERSION_COVERS_TRAVEL_DATE.
C6_BoundaryLaw ==
  Done =>
     \A c \in OtherEndCalls : \A v \in AvailableVersions :
        (v.open <= v.close /\ T = v.close) =>
           /\ v \in Elements(result.candidates)
           /\ v \notin Elements(c.result.candidates)
           /\ versions.items = <<v>> =>
                 /\ result.reason = "OK"
                 /\ c.result.reason = "NO_VERSION_COVERS_TRAVEL_DATE"

C6_Witness ==
  /\ Done
  /\ \E c \in OtherEndCalls : \E v \in AvailableVersions :
        /\ v.open < v.close
        /\ T = v.close
        /\ versions.items = <<v>>
        /\ result.match = <<v>>
        /\ c.result.match = Null

\* C7: for a non-empty list with no version published at or before the purchase
\* date, the reason is NO_AVAILABLE_VERSIONS, match is null, candidates and
\* available are empty, and the versions covering the travel date are all in
\* futureCovering.
C7_NothingPublishedYet ==
  (Done /\ IsArray(versions) /\ Len(versions.items) > 0 /\ AvailableVersions = {}) =>
     /\ result.reason = "NO_AVAILABLE_VERSIONS"
     /\ result.match = Null
     /\ result.candidates = <<>>
     /\ result.available = <<>>
     /\ \A v \in Versions : Covers(v) => v \in Elements(result.futureCovering)

C7_Witness ==
  /\ Done
  /\ IsArray(versions)
  /\ Len(versions.items) > 0
  /\ AvailableVersions = {}
  /\ \E v \in Versions : Covers(v)
  /\ result.futureCovering # <<>>
  /\ result.reason = "NO_AVAILABLE_VERSIONS"

\* C8: for an empty list and for a value that is not a list, the call does not
\* throw and returns NO_AVAILABLE_VERSIONS with match null and candidates,
\* available and futureCovering empty.
C8_EmptyOrNotAList ==
  (Done /\ (versions.kind # "array" \/ versions.items = <<>>)) =>
     /\ ~result.threw
     /\ result.reason = "NO_AVAILABLE_VERSIONS"
     /\ result.match = Null
     /\ result.candidates = <<>>
     /\ result.available = <<>>
     /\ result.futureCovering = <<>>

C8_Witness ==
  /\ Done
  /\ versions.kind = "null"
  /\ result.reason = "NO_AVAILABLE_VERSIONS"

\* C9: the reason is NO_VERSION_COVERS_TRAVEL_DATE exactly when some version is
\* available and no available version covers the travel date under the end
\* rule of the call; match is then null, candidates empty and available
\* non-empty.
C9_NoVersionCovers ==
  Done =>
     /\ result.reason = "NO_VERSION_COVERS_TRAVEL_DATE"
           <=> (AvailableVersions # {} /\ CandidateVersions = {})
     /\ result.reason = "NO_VERSION_COVERS_TRAVEL_DATE"
           => /\ result.match = Null
              /\ result.candidates = <<>>
              /\ result.available # <<>>

C9_Witness ==
  /\ Done
  /\ result.reason = "NO_VERSION_COVERS_TRAVEL_DATE"
  /\ \E v \in AvailableVersions : v.open > T
  /\ \E v \in Versions : v.publishDate > P /\ Covers(v)

\* C10: the end rule applied is exclusive only for an inclusiveEnd that is
\* strictly false, and inclusive for every other value and for omitted options.
C10_InclusiveUnlessStrictlyFalse ==
  Done =>
     Elements(result.candidates) =
        IF options.kind = "object" /\ options.inclusiveEnd = "false"
          THEN {v \in AvailableVersions : CoversExclusive(v)}
          ELSE {v \in AvailableVersions : CoversInclusive(v)}

FutureVersions == {v \in Versions : v.publishDate > P}

\* C11: the echoed options.inclusiveEnd is true exactly when candidates and
\* futureCovering were computed with t <= close and false exactly when they
\* were computed with t < close, and the explanation names the same rule.
C11_EchoedOptionsApplied ==
  (Done /\ IsArray(versions)) =>
     /\ result.options.inclusiveEnd =>
           /\ Elements(result.candidates) = {v \in AvailableVersions : CoversInclusive(v)}
           /\ Elements(result.futureCovering) = {v \in FutureVersions : CoversInclusive(v)}
           /\ result.explanation.endWord \in {"", "inkludert"}
     /\ ~result.options.inclusiveEnd =>
           /\ Elements(result.candidates) = {v \in AvailableVersions : CoversExclusive(v)}
           /\ Elements(result.futureCovering) = {v \in FutureVersions : CoversExclusive(v)}
           /\ result.explanation.endWord \in {"", "eksklusiv"}

\* C12: for a non-empty list, futureCovering holds exactly the versions
\* published after the purchase date that cover the travel date under the end
\* rule of the call, each once, in every outcome; none of them is the match, a
\* candidate or available.
C12_FutureCovering ==
  (Done /\ IsArray(versions) /\ Len(versions.items) > 0) =>
     /\ Elements(result.futureCovering) = {v \in FutureVersions : Covers(v)}
     /\ \A v \in Elements(result.futureCovering) :
           /\ Count(result.futureCovering, v) = Count(versions.items, v)
           /\ result.match # <<v>>
           /\ v \notin Elements(result.candidates)
           /\ v \notin Elements(result.available)

C12_Witness ==
  /\ Done
  /\ result.reason = "OK"
  /\ Len(result.futureCovering) = 1
  /\ \E v \in FutureVersions : Covers(v)
  /\ \E v \in AvailableVersions : Covers(v)

LaterCalls ==
  {c \in again : /\ c.args.versions = versions
                 /\ c.args.travelDate = call[1].travelDate
                 /\ c.args.options = options
                 /\ P <= c.args.purchaseDate.ms}

\* C13: monotonic availability: for a fixed list and purchase dates p1 <= p2,
\* every version in the available of the call at p1 is in the available of the
\* call at p2, at least as often.
C13_MonotonicAvailability ==
  Done => \A c \in LaterCalls :
            \A v \in Elements(result.available) :
               /\ v \in Elements(c.result.available)
               /\ Count(result.available, v) <= Count(c.result.available, v)

C13_Witness ==
  /\ Done
  /\ \E c \in LaterCalls :
        /\ P < c.args.purchaseDate.ms
        /\ Len(result.available) = 1
        /\ Len(c.result.available) = 2
        /\ Elements(result.available) \subseteq Elements(c.result.available)

Returned ==
  Elements(result.candidates) \cup Elements(result.available)
    \cup Elements(result.futureCovering) \cup Elements(result.match)

\* C14: after a call the input list has the length, the element order and the
\* records it had when the call was made, and every record returned in match,
\* candidates, available and futureCovering is a record of that list.
C14_InputsUntouched ==
  Done => /\ versions = call[1].versions
          /\ IsArray(versions) => Returned \subseteq Elements(call[1].versions.items)
          /\ ~IsArray(versions) => Returned = {}

C14_Witness ==
  /\ Done
  /\ IsArray(versions)
  /\ Len(versions.items) = 2
  /\ versions.items[1].publishDate > versions.items[2].publishDate
  /\ versions = call[1].versions
  /\ result.reason = "OK"
  /\ result.available = <<versions.items[2], versions.items[1]>>
  /\ result.match = <<versions.items[1]>>

DateCalls ==
  {c \in again : /\ c.args.versions = versions
                 /\ c.args.options = options
                 /\ "Date" \in {c.args.purchaseDate.kind, c.args.travelDate.kind}
                 /\ c.args.purchaseDate \in {call[1].purchaseDate, AsDate(call[1].purchaseDate)}
                 /\ c.args.travelDate \in {call[1].travelDate, AsDate(call[1].travelDate)}}

\* C16: a call with the purchase date, the travel date or both passed as Date
\* objects returns the match, reason, candidates, available and futureCovering
\* of the call with the millisecond numbers of the same instants, and both
\* calls echo the dates as millisecond numbers.
C16_DateAndMillisAgree ==
  Done => \A c \in DateCalls :
            /\ c.result.match = result.match
            /\ c.result.reason = result.reason
            /\ c.result.candidates = result.candidates
            /\ c.result.available = result.available
            /\ c.result.futureCovering = result.futureCovering
            /\ c.result.purchaseDate = P /\ result.purchaseDate = P
            /\ c.result.travelDate = T /\ result.travelDate = T

C16_Witness ==
  /\ Done
  /\ P = MaxTime
  /\ \E c \in DateCalls :
        /\ c.args.purchaseDate.kind = "Date"
        /\ c.args.travelDate.kind = "Date"
        /\ c.result.reason = "OK"
        /\ c.result.match = result.match
        /\ c.result.purchaseDate = P

NameCalls == {c \in again : c.args = call[1]}

\* C17: resolveVersionName returns the version of the match of resolveVersion
\* on the same arguments when there is a match and null when there is none; it
\* returns null exactly when the reason of that resolution is not OK.
C17_NameOfMatch ==
  Done => \A c \in NameCalls :
            /\ result.match # Null => c.name = <<result.match[1].version>>
            /\ result.match = Null => c.name = Null
            /\ c.name = Null <=> result.reason # "OK"

C17_Witness ==
  /\ Done
  /\ Len(result.candidates) = 2
  /\ result.match = <<result.candidates[2]>>
  /\ \E c \in NameCalls : c.name = <<result.candidates[2].version>>

BasicCalls == {c \in again : c.args = call[1]}

\* C18: on the same versions, dates and options the extended resolver and the
\* basic variant return the same match, reason, candidates and available.
C18_ExtensionKeepsResolution ==
  Done => \A c \in BasicCalls :
            /\ c.basic.threw = result.threw
            /\ c.basic.match = result.match
            /\ c.basic.reason = result.reason
            /\ c.basic.candidates = result.candidates
            /\ c.basic.available = result.available

C18_Witness ==
  /\ Done
  /\ result.reason = "OK"
  /\ Len(result.futureCovering) = 1
  /\ result.explanation # NoExplanation
  /\ ~Truthy(DestructureInclusiveEnd(DefaultOptions(options)))
  /\ \E c \in BasicCalls : c.basic.reason = "OK" /\ c.basic.match = result.match

\* C19: on a page with the #resolved-version element, after the chart is
\* initialized and after every change made through the ChartManager, the
\* highlighted version _currentValidVersion is the version of the match of
\* resolveVersion on the current chartData, purchaseDate and travelDate, or
\* null when there is no match.
C19_HighlightIsResolved ==
  (chart.series /\ chart.resolvedVersionEl) =>
     chart._currentValidVersion = MatchVersion(ChartResolve(chart))

Ascending(s) == \A i, j \in DOMAIN s : i < j => s[i].publishDate <= s[j].publishDate

\* C15: available, candidates and futureCovering are in ascending order of
\* publishDate whatever the order of the input list.
C15_EchoesAscending ==
  Done => /\ Ascending(result.available)
          /\ Ascending(result.candidates)
          /\ Ascending(result.futureCovering)

C15_Witness ==
  /\ Done
  /\ IsArray(versions)
  /\ Len(versions.items) = 2
  /\ versions.items[1].publishDate > versions.items[2].publishDate
  /\ result.candidates = <<versions.items[2], versions.items[1]>>
  /\ result.available = result.candidates

\* C20: an available version with open = close is a candidate exactly when the
\* travel date equals open under the inclusive end rule, and never under the
\* exclusive end rule.
C20_SingleInstantWindow ==
  (Done /\ IsArray(versions)) =>
     \A v \in AvailableVersions :
        v.open = v.close =>
           IF InclusiveCall
             THEN v \in Elements(result.candidates) <=> T = v.open
             ELSE v \notin Elements(result.candidates)

C20_Witness ==
  /\ Done
  /\ InclusiveCall
  /\ \E v \in AvailableVersions :
        /\ v.open = v.close
        /\ T = v.open
        /\ result.match = <<v>>
  /\ \E v \in AvailableVersions : v.open = v.close /\ T # v.open

\* the candidates published before the match, each position counted
OlderCandidates ==
  Cardinality({i \in DOMAIN result.candidates :
                 result.candidates[i].publishDate < result.match[1].publishDate})

\* C21: in the OK explanation the note on other candidates appears exactly when
\* there is more than one candidate, and the count it states is the number of
\* candidates published before the match.
C21_OlderCandidatesCounted ==
  (Done /\ result.reason = "OK") =>
     /\ result.explanation.otherCount # Null <=> Len(result.candidates) > 1
     /\ result.explanation.otherCount # Null =>
           result.explanation.otherCount[1] = OlderCandidates

\* C22: the explanation of NO_VERSION_COVERS_TRAVEL_DATE states the size of
\* available; it names a future version exactly when futureCovering is not
\* empty, and the version named is one of futureCovering that none of
\* futureCovering was published after.
C22_LatestFutureNamed ==
  (Done /\ result.reason = "NO_VERSION_COVERS_TRAVEL_DATE") =>
     /\ result.explanation.availableCount = Len(result.available)
     /\ result.explanation.future = Null <=> result.futureCovering = <<>>
     /\ result.explanation.future # Null =>
           \E f \in Elements(result.futureCovering) :
              /\ result.explanation.future[1].version = f.version
              /\ result.explanation.future[1].published = fmt(f.publishDate)
              /\ \A g \in Elements(result.futureCovering) : g.publishDate <= f.publishDate

C22_Witness ==
  /\ Done
  /\ result.reason = "NO_VERSION_COVERS_TRAVEL_DATE"
  /\ result.explanation.availableCount = 1
  /\ Len(result.futureCovering) = 2
  /\ versions.items[2].publishDate > versions.items[3].publishDate
  /\ versions.items[3].publishDate > P
  /\ result.explanation.future # Null
  /\ result.explanation.future[1].version = versions.items[2].version

\* v is beaten by w: w was published later, or at the same instant with a later open
Beats(w, v) ==
  \/ w.publishDate > v.publishDate
  \/ w.publishDate = v.publishDate /\ w.open > v.open

\* the positions in the input list of the candidates that no candidate beats
TopPositions ==
  {i \in DOMAIN versions.items :
     /\ versions.items[i] \in CandidateVersions
     /\ \A w \in CandidateVersions : ~Beats(w, versions.items[i])}

\* C23: of the candidates that tie on the greatest publishDate and, among
\* those, on the greatest open, the match is the one that comes first in the
\* input list.
C23_TieKeepsEarliest ==
  (Done /\ IsArray(versions) /\ TopPositions # {}) =>
     \A i \in TopPositions :
        (\A j \in TopPositions : i <= j) => result.match = <<versions.items[i]>>

C23_Witness ==
  /\ Done
  /\ TopPositions = {1, 2}
  /\ versions.items[1] # versions.items[2]
  /\ versions.items[1].publishDate = versions.items[2].publishDate
  /\ versions.items[1].open = versions.items[2].open
  /\ result.candidates = versions.items
  /\ result.match = <<versions.items[1]>>

Reasons == {"OK", "NO_AVAILABLE_VERSIONS", "NO_VERSION_COVERS_TRAVEL_DATE"}

\* C24: every call returns a result whose reason is one of the three reasons;
\* the reason is OK exactly when there is a match and exactly when candidates
\* is not empty; the explanation is not empty in any outcome.
C24_ReasonMatchCandidates ==
  Done => /\ ~result.threw
          /\ result.reason \in Reasons
          /\ result.reason = "OK" <=> result.match # Null
          /\ result.match # Null <=> result.candidates # <<>>
          /\ result.explanation # NoExplanation
          /\ result.explanation.shape = result.reason

C24_Witness ==
  /\ Done
  /\ result.reason = "OK"
  /\ Len(result.candidates) = 2
  /\ result.match = <<result.candidates[2]>>
  /\ result.explanation.version # Null
  /\ result.explanation.version[1].version = result.candidates[2].version

\* C25: for a non-empty list the match is one of candidates, every candidate
\* is in available, every available version is in the input, and candidates
\* and futureCovering are disjoint and together hold exactly the input
\* versions whose window covers the travel date.
C25_ResultLists ==
  (Done /\ IsArray(versions) /\ Len(versions.items) > 0) =>
     /\ Elements(result.match) \subseteq Elements(result.candidates)
     /\ Elements(result.candidates) \subseteq Elements(result.available)
     /\ Elements(result.available) \subseteq Versions
     /\ Elements(result.candidates) \cap Elements(result.futureCovering) = {}
     /\ Elements(result.candidates) \cup Elements(result.futureCovering)
           = {v \in Versions : Covers(v)}

C25_Witness ==
  /\ Done
  /\ Len(versions.items) = 2
  /\ result.match # Null
  /\ result.candidates = <<result.match[1]>>
  /\ Len(result.futureCovering) = 1
  /\ Elements(result.candidates) \cup Elements(result.futureCovering) = Versions
  /\ \A v \in Versions : Covers(v)

\* C26: for a fixed list, travel date and options and purchase dates p1 <= p2:
\* when the call at p1 has reason OK, the call at p2 has reason OK and a match
\* published no earlier than the match at p1; futureCovering at p2 holds only
\* versions of futureCovering at p1.
C26_LaterPurchaseKeepsMatch ==
  Done => \A c \in LaterCalls :
            /\ result.reason = "OK" =>
                  /\ c.result.reason = "OK"
                  /\ c.result.match # Null
                  /\ c.result.match[1].publishDate >= result.match[1].publishDate
            /\ \A v \in Elements(c.result.futureCovering) :
                  /\ v \in Elements(result.futureCovering)
                  /\ Count(c.result.futureCovering, v) <= Count(result.futureCovering, v)

C26_Witness ==
  /\ Done
  /\ result.reason = "OK"
  /\ Len(result.futureCovering) = 1
  /\ \E c \in LaterCalls :
        /\ P < c.args.purchaseDate.ms
        /\ c.result.reason = "OK"
        /\ c.result.match[1].publishDate > result.match[1].publishDate
        /\ c.result.match = <<result.futureCovering[1]>>
        /\ c.result.futureCovering = <<>>

C29_EachDragOnce ==
  /\ drag.event = "none" => ~isDragging(drag)
  /\ drag.event = "dragstart" => drag.onDragStart = 1 /\ isDragging(drag)
  /\ drag.event = "dragstop" => drag.onDrop <= 1 /\ ~isDragging(drag)


\* C28: the purchase date of the ChartManager and the purchase date of its
\* PurchaseDateShading are equal after any sequence of form updates and
\* drags of the purchase line.
C28_PurchaseDatesAgree ==
  chart.purchaseDateShading # Null =>
     chart.purchaseDateShading[1].purchaseDate = chart.purchaseDate


\* the calls of addVersionLabels and the callbacks they register
NextLabels ==
  \/ addVersionLabels
  \/ frameended
  \/ datavalidated
  \/ templateReady

SpecLabels == InitLabels /\ [][NextLabels]_vars

\* every frame that is due ends
SpecLabelsFair == SpecLabels /\ WF_vars(frameended)

\* C30: for any number of calls of addVersionLabels and any interleaving of
\* the 'frameended' retries with 'datavalidated', at most one labelling
\* mechanism is attached to the series: one template label or one bullet
\* label, never both and never two of the same.
C30_AtMostOneLabelling == labels.children + labels.bullets <= 1

\* a call with method 'auto' is followed by an attached labelling mechanism
C30_AutoEventuallyAttached ==
  (\E i \in DOMAIN labels.calls : labels.calls[i].method = "auto")
     ~> (labels._versionLabelAttached \/ labels._versionLabelBulletAttached)

====
